---- MODULE Spec2Model ----
(***************************************************************************)
(* Model of the GitHub alerter of PANIC                                    *)
(* (src/alerter/src/alerter/alerters/github.py): the message handler      *)
(* _process_data, the enqueue step _place_latest_data_on_queue, the        *)
(* consumption loop _alert_classifier_process and on_terminate.            *)
(***************************************************************************)
EXTENDS Integers, Sequences, FiniteSets, TLC

(* ------------------------------ bounds -------------------------------- *)

\* capacity of publishing_queue (Queue(maxsize) of the Alerter base class)
maxsize == 2

\* number of deliveries the upstream broker makes in a run
MaxDeliveries == 2

\* largest no_of_releases.current and number of indexed release items in a payload
MaxReleases == 3

\* largest no_of_releases.previous in a payload
MaxPrevious == 1

(* ----------------------------- constants ------------------------------ *)

ALERT_EXCHANGE == "alert"

ROUTING_KEY == "alert_router.github"

\* keys of meta_data read when an alert is built
RESULT_META_KEYS == {"repo_name", "last_monitored", "repo_parent_id", "repo_id"}

ERROR_META_KEYS == {"repo_name", "time", "repo_parent_id", "repo_id"}

RELEASE_KEYS == {"release_name", "tag_name"}

(* --------------------------- JSON payloads ---------------------------- *)

\* JSON null and JSON integers, as json.loads returns them (None / int)
JNull == [type |-> "null"]

JInt(n) == [type |-> "int", val |-> n]

IsNone(v) == v.type = "null"

\* values of no_of_releases.current and no_of_releases.previous
CurrentValues == {JNull} \cup {JInt(n) : n \in 0..MaxReleases}

PreviousValues == {JNull} \cup {JInt(n) : n \in 0..MaxPrevious}

\* the indexed item list "releases": keys are the decimal strings of indices
ReleaseItem(k) == [release_name |-> "release" \o k, tag_name |-> "v" \o k]

IndexKeys == {ToString(i) : i \in 0..(MaxReleases - 1)}

ReleaseLists == {[k \in S |-> ReleaseItem(k)] : S \in SUBSET IndexKeys}

\* meta_data of a 'result' and of an 'error'; id stamps the message
ResultMeta(id) ==
    [repo_name |-> "x", last_monitored |-> id, repo_parent_id |-> "p", repo_id |-> "r"]

ErrorMeta(id) ==
    [repo_name |-> "x", time |-> id, repo_parent_id |-> "p", repo_id |-> "r"]

\* meta_data lacking fields the alerts need
PartialMeta(id) == [repo_id |-> "r"]

ResultData == {[no_of_releases |-> [current |-> c, previous |-> p], releases |-> r] :
                  c \in CurrentValues, p \in PreviousValues, r \in ReleaseLists}

ResultPayloads(id) ==
    {[result |-> [meta_data |-> m, data |-> d]] :
        m \in {ResultMeta(id), PartialMeta(id)}, d \in ResultData}
    \cup {[result |-> [stamp |-> id]]}

ErrorPayloads(id) ==
    {[error |-> [meta_data |-> m]] : m \in {ErrorMeta(id), PartialMeta(id)}}
    \cup {[error |-> [stamp |-> id]]}

OtherPayloads(id) == {[heartbeat |-> id]}

Payloads(id) == ResultPayloads(id) \cup ErrorPayloads(id) \cup OtherPayloads(id)

\* message bodies: the bytes of a JSON document, or bytes that are no JSON
Bodies(id) == {[json |-> TRUE, doc |-> p] : p \in Payloads(id)}
                 \cup {[json |-> FALSE, raw |-> id]}

NoBody == [none |-> TRUE]

\* json.loads(body.decode()): the document, or a decoding error
CanDecode(b) == b.json

json_loads(b) == b.doc

(* --------------------------- alerts (lines 76-93) ---------------------- *)

\* NewGitHubReleaseAlert(...).alert_data
NewGitHubReleaseAlert(repo_name, release_name, tag_name, severity, timestamp, parent_id, origin_id) ==
    [alert_code |-> "NewGitHubReleaseAlert", repo_name |-> repo_name,
     release_name |-> release_name, tag_name |-> tag_name, severity |-> severity,
     timestamp |-> timestamp, parent_id |-> parent_id, origin_id |-> origin_id]

\* CannotAccessGitHubPageAlert(...).alert_data
CannotAccessGitHubPageAlert(repo_name, severity, timestamp, parent_id, origin_id) ==
    [alert_code |-> "CannotAccessGitHubPageAlert", repo_name |-> repo_name,
     severity |-> severity, timestamp |-> timestamp, parent_id |-> parent_id,
     origin_id |-> origin_id]

(* ------------------- classification (lines 66-103) --------------------- *)

\* outcome of the try block: the flag, the list built so far, the exception caught
Outcome(err, alerts, exc) ==
    [processing_error |-> err, data_for_alerting |-> alerts, exception |-> exc]

\* variant of ReleaseLoop: range(0, current - previous + 1)
RECURSIVE ReleaseLoopInclusive(_, _, _, _, _)
ReleaseLoopInclusive(meta, data, i, n, acc) ==
    IF i > n THEN Outcome(FALSE, acc, "none")
    ELSE IF \/ ~(RESULT_META_KEYS \subseteq DOMAIN meta)
            \/ "releases" \notin DOMAIN data
            \/ ToString(i) \notin DOMAIN data.releases
            \/ ~(RELEASE_KEYS \subseteq DOMAIN data.releases[ToString(i)])
         THEN Outcome(TRUE, acc, "KeyError")
         ELSE ReleaseLoopInclusive(meta, data, i + 1, n,
                  Append(acc, NewGitHubReleaseAlert(
                      meta.repo_name,
                      data.releases[ToString(i)].release_name,
                      data.releases[ToString(i)].tag_name, "INFO",
                      meta.last_monitored, meta.repo_parent_id, meta.repo_id)))

\* for i in range(0, current - previous): one alert per index, appended in turn;
\* a missing key raises KeyError and leaves the list as built so far
RECURSIVE ReleaseLoop(_, _, _, _, _)
ReleaseLoop(meta, data, i, n, acc) ==
    IF i >= n THEN Outcome(FALSE, acc, "none")
    ELSE IF \/ ~(RESULT_META_KEYS \subseteq DOMAIN meta)
            \/ "releases" \notin DOMAIN data
            \/ ToString(i) \notin DOMAIN data.releases
            \/ ~(RELEASE_KEYS \subseteq DOMAIN data.releases[ToString(i)])
         THEN Outcome(TRUE, acc, "KeyError")
         ELSE ReleaseLoop(meta, data, i + 1, n,
                  Append(acc, NewGitHubReleaseAlert(
                      meta.repo_name,
                      data.releases[ToString(i)].release_name,
                      data.releases[ToString(i)].tag_name, "INFO",
                      meta.last_monitored, meta.repo_parent_id, meta.repo_id)))

\* variant of ClassifyResult: a missing baseline counts as zero releases
ClassifyResultNoBaseline(result) ==
    IF \/ "meta_data" \notin DOMAIN result
       \/ "data" \notin DOMAIN result
       \/ "no_of_releases" \notin DOMAIN result.data
       \/ ~({"current", "previous"} \subseteq DOMAIN result.data.no_of_releases)
    THEN Outcome(TRUE, <<>>, "KeyError")
    ELSE LET meta == result.meta_data
             data == result.data
             current == data.no_of_releases.current
             previous == data.no_of_releases.previous
             base == IF IsNone(previous) THEN 0 ELSE previous.val
         IN  IF IsNone(current) THEN Outcome(TRUE, <<>>, "TypeError")
             ELSE IF current.val > base
                  THEN ReleaseLoop(meta, data, 0, current.val - base, <<>>)
                  ELSE Outcome(FALSE, <<>>, "none")

\* the 'result' branch
ClassifyResult(result) ==
    IF \/ "meta_data" \notin DOMAIN result
       \/ "data" \notin DOMAIN result
       \/ "no_of_releases" \notin DOMAIN result.data
       \/ ~({"current", "previous"} \subseteq DOMAIN result.data.no_of_releases)
    THEN Outcome(TRUE, <<>>, "KeyError")
    ELSE LET meta == result.meta_data
             data == result.data
             current == data.no_of_releases.current
             previous == data.no_of_releases.previous
         IN  IF IsNone(previous) THEN Outcome(FALSE, <<>>, "none")
             ELSE IF IsNone(current) THEN Outcome(TRUE, <<>>, "TypeError")
             ELSE IF current.val > previous.val
                  THEN ReleaseLoop(meta, data, 0, current.val - previous.val, <<>>)
                  ELSE Outcome(FALSE, <<>>, "none")

\* variant of ClassifyError: the alert is built and not appended
ClassifyErrorNotAppended(error) ==
    IF \/ "meta_data" \notin DOMAIN error
       \/ ~(ERROR_META_KEYS \subseteq DOMAIN error.meta_data)
    THEN Outcome(TRUE, <<>>, "KeyError")
    ELSE Outcome(FALSE, <<>>, "none")

\* the 'error' branch
ClassifyError(error) ==
    IF \/ "meta_data" \notin DOMAIN error
       \/ ~(ERROR_META_KEYS \subseteq DOMAIN error.meta_data)
    THEN Outcome(TRUE, <<>>, "KeyError")
    ELSE LET meta_data == error.meta_data
         IN  Outcome(FALSE,
                     <<CannotAccessGitHubPageAlert(meta_data.repo_name, "ERROR",
                          meta_data.time, meta_data.repo_parent_id, meta_data.repo_id)>>,
                     "none")

\* variant of Classify: no else branch, an unknown payload raises nothing
ClassifyWithoutElse(received) ==
    IF "result" \in DOMAIN received THEN ClassifyResult(received.result)
    ELSE IF "error" \in DOMAIN received THEN ClassifyError(received.error)
    ELSE Outcome(FALSE, <<>>, "none")

\* the if / elif / else of the try block, with the except clause
Classify(received) ==
    IF "result" \in DOMAIN received THEN ClassifyResult(received.result)
    ELSE IF "error" \in DOMAIN received THEN ClassifyError(received.error)
    ELSE Outcome(TRUE, <<>>, "ReceivedUnexpectedDataException")

(* ------------- publishing queue (lines 127-140) ------------------------ *)

\* Queue.full()
Full(q) == Len(q) >= maxsize

\* variant of Get: removes the newest entry
GetNewest(q) == SubSeq(q, 1, Len(q) - 1)

\* Queue.get(): removes and returns the oldest entry
Get(q) == Tail(q)

\* the entry put for one alert
Entry(alert) == [exchange |-> ALERT_EXCHANGE, routing_key |-> ROUTING_KEY, data |-> alert]

\* variant of Put: the entry goes to the front of the queue
PutFront(q, alert) == <<Entry(alert)>> \o q

\* Queue.put(entry) on a queue that is not full
Put(q, alert) == Append(q, Entry(alert))

\* variant of PlaceLatestDataOnQueue: put(...) without the full() test
PlaceWithoutEviction(q, data_list) ==
    q \o [i \in 1..Len(data_list) |-> Entry(data_list[i])]

\* variant of BeforePut: no get() on a full queue
BeforePutNoGet(q) == q

\* lines 133-134: if self.publishing_queue.full(): self.publishing_queue.get()
BeforePut(q) == IF Full(q) THEN Get(q) ELSE q

\* no put made yet
NoPuts == [puts |-> 0, on_full |-> 0]

\* the loop of lines 130-140 from queue q: the queue it leaves, the number of
\* puts it makes and how many of them meet a full queue (a put that would block)
RECURSIVE PlaceRun(_, _, _)
PlaceRun(q, data_list, run) ==
    IF data_list = <<>>
    THEN [queue |-> q, puts |-> run.puts, on_full |-> run.on_full]
    ELSE PlaceRun(Put(BeforePut(q), Head(data_list)), Tail(data_list),
                  [puts |-> run.puts + 1,
                   on_full |-> run.on_full + (IF Full(BeforePut(q)) THEN 1 ELSE 0)])

\* for alert in data_list: if full: get(); put(...)
PlaceLatestDataOnQueue(q, data_list) == PlaceRun(q, data_list, NoPuts).queue

\* the puts made by lines 111-112
PlacedPuts(q, err, data_list) ==
    IF ~err
    THEN [puts |-> PlaceRun(q, data_list, NoPuts).puts,
          on_full |-> PlaceRun(q, data_list, NoPuts).on_full]
    ELSE NoPuts

\* variant of PlacedQueue: the enqueue runs whatever processing_error is
PlacedQueueAlways(q, err, data_list) == PlaceLatestDataOnQueue(q, data_list)

\* lines 111-112: if not processing_error: self._place_latest_data_on_queue(...)
PlacedQueue(q, err, data_list) ==
    IF ~err THEN PlaceLatestDataOnQueue(q, data_list) ELSE q

(* ------------------------------- state --------------------------------- *)

VARIABLES
    pc,                 \* position of the process: the loop or a line of the handler
    connected,          \* the RabbitMQ connection is open
    publishing_queue,   \* self.publishing_queue, oldest entry first
    body,               \* body of the message being handled
    data_received,      \* local of _process_data
    processing_error,   \* local of _process_data
    data_for_alerting,  \* local of _process_data
    exception,          \* exception caught by the except clause of line 100
    delivery_tag,       \* method.delivery_tag of the latest delivery
    unacked,            \* messages delivered and not acknowledged, to be redelivered
    msg_id,             \* identity of the message of the latest delivery
    acks,               \* successful basic_ack calls for the latest delivery
    exit,               \* how the latest handler call ended
    raised,             \* the exception that last reached the consumption loop
    published,          \* entries the downstream broker confirmed, in order
    steps,              \* steps taken so far by the handler call in flight
    queue_before,       \* publishing_queue when the handler call in flight began
    signal_at,          \* position of the process when the shutdown signal came
    put_count,          \* puts made by the handler call in flight, and those on a full queue
    stalled,            \* the head entry whose publish reported not delivered, until the next publish attempt
    shutdown            \* what on_terminate did, in order

vars == <<pc, connected, publishing_queue, body, data_received, processing_error,
          data_for_alerting, exception, delivery_tag, unacked, msg_id, acks, exit,
          raised, published, steps, queue_before, signal_at, put_count, stalled,
          shutdown>>

NoData == [none |-> TRUE]

\* no publish reported not delivered since the last publish attempt
NoStall == [none |-> TRUE]

Init ==
    /\ pc = "initializing"
    /\ connected = FALSE
    /\ publishing_queue = <<>>
    /\ body = NoBody
    /\ data_received = NoData
    /\ processing_error = FALSE
    /\ data_for_alerting = <<>>
    /\ exception = "none"
    /\ delivery_tag = 0
    /\ unacked = {}
    /\ msg_id = 0
    /\ acks = 0
    /\ exit = "none"
    /\ raised = "none"
    /\ published = <<>>
    /\ steps = <<>>
    /\ queue_before = <<>>
    /\ signal_at = "none"
    /\ put_count = NoPuts
    /\ stalled = NoStall
    /\ shutdown = <<>>

\* the locals of _process_data go out of scope when the call ends
LocalsDropped ==
    /\ body' = NoBody
    /\ data_received' = NoData
    /\ processing_error' = FALSE
    /\ data_for_alerting' = <<>>
    /\ exception' = "none"
    /\ steps' = <<>>
    /\ queue_before' = <<>>
    /\ put_count' = NoPuts

\* variant of LoopAfter: a channel error is re-raised like a connection error
LoopAfterChannelFatal(exc) ==
    IF exc = "MessageWasNotDeliveredException" THEN "consume" ELSE "raised"

\* where the except clauses of the consumption loop send an exception
\* that start_consuming lets through (lines 146-165)
LoopAfter(exc) ==
    IF exc = "AMQPChannelError" THEN "consume"
    ELSE IF exc = "AMQPConnectionError" THEN "raised"
    ELSE IF exc = "MessageWasNotDeliveredException" THEN "consume"
    ELSE "raised"

\* an exception leaves _process_data and reaches the consumption loop
HandlerRaises(exc, how) ==
    /\ pc' = LoopAfter(exc)
    /\ raised' = exc
    /\ exit' = how
    /\ LocalsDropped

\* the handler returns normally
HandlerReturns(how) ==
    /\ pc' = "consume"
    /\ exit' = how
    /\ LocalsDropped

(* ------------------------------ actions -------------------------------- *)

\* variant of LineAfter: basic_ack before the try block
LineAfterAckFirst(line) ==
    CASE line = "decode" -> "ack"
      [] line = "ack" -> "classify"
      [] line = "classify" -> "place"
      [] line = "place" -> "send"

\* variant of LineAfter: the enqueue before basic_ack
LineAfterPutFirst(line) ==
    CASE line = "decode" -> "classify"
      [] line = "classify" -> "place"
      [] line = "place" -> "ack"
      [] line = "ack" -> "send"

\* variant of LineAfter: the handler returns after the enqueue, without the drain
LineAfterNoDrain(line) ==
    CASE line = "decode" -> "classify"
      [] line = "classify" -> "ack"
      [] line = "ack" -> "place"
      [] line = "place" -> "consume"

\* the order of the statements of _process_data after line 62:
\* the try block (66-103), basic_ack (105), the enqueue (111-112), the drain (115-125)
LineAfter(line) ==
    CASE line = "decode" -> "classify"
      [] line = "classify" -> "ack"
      [] line = "ack" -> "place"
      [] line = "place" -> "send"

\* _initialize_alerter: connect, declare the topology, register the callback
InitializeAlerter ==
    /\ pc = "initializing"
    /\ pc' = "consume"
    /\ connected' = TRUE
    /\ UNCHANGED <<publishing_queue, body, data_received, processing_error,
                   data_for_alerting, exception, delivery_tag, unacked, msg_id, acks,
                   exit, raised, published, steps, queue_before, signal_at,
                   put_count, stalled, shutdown>>

\* the exceptions start_consuming lets through while it waits for a message
ConsumeExceptions == {"AMQPChannelError", "AMQPConnectionError", "Exception"}

\* lines 145-165: start_consuming raises and an except clause of the loop takes it
ConsumeFails ==
    /\ pc = "consume"
    /\ \E exc \in ConsumeExceptions :
          /\ pc' = LoopAfter(exc)
          /\ raised' = exc
    /\ UNCHANGED <<connected, publishing_queue, body, data_received, processing_error,
                   data_for_alerting, exception, delivery_tag, unacked, msg_id, acks,
                   exit, published, steps, queue_before, signal_at, put_count,
                   stalled, shutdown>>

\* the messages the broker may deliver next: a message left unacknowledged
\* is delivered again before any new one
NextMessages ==
    IF unacked = {} THEN {[id |-> delivery_tag + 1, body |-> b] : b \in Bodies(delivery_tag + 1)}
    ELSE unacked

\* start_consuming hands the next message to _process_data
Deliver ==
    /\ pc = "consume"
    /\ delivery_tag < MaxDeliveries
    /\ \E m \in NextMessages :
          /\ body' = m.body
          /\ msg_id' = m.id
          /\ unacked' = {m}
    /\ delivery_tag' = delivery_tag + 1
    /\ pc' = "decode"
    /\ acks' = 0
    /\ exit' = "in_flight"
    /\ steps' = <<>>
    /\ queue_before' = publishing_queue
    /\ raised' = "none"
    /\ UNCHANGED <<connected, publishing_queue, data_received, processing_error,
                   data_for_alerting, exception, published, signal_at, put_count,
                   stalled, shutdown>>

\* line 62: json.loads(body.decode()), outside the try block
JsonLoads ==
    /\ pc = "decode"
    /\ IF CanDecode(body)
       THEN /\ data_received' = json_loads(body)
            /\ pc' = LineAfter("decode")
            /\ steps' = Append(steps, "decode")
            /\ UNCHANGED <<body, processing_error, data_for_alerting, exception,
                           exit, raised, queue_before, put_count>>
       ELSE HandlerRaises("JSONDecodeError", "raised_at_decode")
    /\ UNCHANGED <<connected, publishing_queue, delivery_tag, unacked, msg_id, acks,
                   published, signal_at, stalled, shutdown>>

\* lines 66-103: the try block and its except clause
ProcessData ==
    /\ pc = "classify"
    /\ LET out == Classify(data_received)
       IN  /\ processing_error' = out.processing_error
           /\ data_for_alerting' = out.data_for_alerting
           /\ exception' = out.exception
    /\ pc' = LineAfter("classify")
    /\ steps' = Append(steps, "classify")
    /\ UNCHANGED <<connected, publishing_queue, body, data_received, delivery_tag,
                   unacked, msg_id, acks, exit, raised, published, queue_before,
                   signal_at, put_count, stalled, shutdown>>

\* outcomes of basic_ack: the broker takes it, or the channel or connection fails
AckOutcomes == {"ok", "AMQPChannelError", "AMQPConnectionError"}

\* line 105: self.rabbitmq.basic_ack(method.delivery_tag, False)
BasicAck ==
    /\ pc = "ack"
    /\ \E o \in AckOutcomes :
          IF o = "ok"
          THEN /\ acks' = acks + 1
               /\ unacked' = {}
               /\ pc' = LineAfter("ack")
               /\ steps' = Append(steps, "ack")
               /\ UNCHANGED <<body, data_received, processing_error,
                              data_for_alerting, exception, exit, raised, queue_before,
                              put_count>>
          ELSE /\ HandlerRaises(o, "raised_at_ack")
               /\ UNCHANGED <<acks, unacked>>
    /\ UNCHANGED <<connected, publishing_queue, delivery_tag, msg_id, published,
                   signal_at, stalled, shutdown>>

\* lines 107-112: the enqueue step of the handler
PlaceData ==
    /\ pc = "place"
    /\ publishing_queue' =
          PlacedQueue(publishing_queue, processing_error, data_for_alerting)
    /\ pc' = LineAfter("place")
    /\ put_count' = PlacedPuts(publishing_queue, processing_error, data_for_alerting)
    /\ steps' = Append(steps, IF ~processing_error THEN "put" ELSE "skip_put")
    /\ UNCHANGED <<connected, body, data_received, processing_error,
                   data_for_alerting, exception, delivery_tag, unacked, msg_id, acks,
                   exit, raised, published, queue_before, signal_at, stalled, shutdown>>

\* outcomes of one confirmed publish of the head entry
PublishOutcomes == {"confirmed", "MessageWasNotDeliveredException",
                    "AMQPChannelError", "AMQPConnectionError", "Exception"}

\* variant of SendDataRound: an entry whose publish failed is removed all the same
SendDataRoundDropping(q, o) ==
    IF q = <<>> THEN [result |-> "done", queue |-> q, sent |-> <<>>]
    ELSE IF o = "confirmed"
         THEN [result |-> "again", queue |-> Get(q), sent |-> <<Head(q)>>]
         ELSE [result |-> o, queue |-> Get(q), sent |-> <<>>]

\* one round of the loop of _send_data on queue q, the publish ending as o:
\* an empty queue ends the loop; a confirmed head entry is removed and the loop
\* goes on; any other outcome is raised with the entry left at the head
SendDataRound(q, o) ==
    IF q = <<>> THEN [result |-> "done", queue |-> q, sent |-> <<>>]
    ELSE IF o = "confirmed"
         THEN [result |-> "again", queue |-> Get(q), sent |-> <<Head(q)>>]
         ELSE [result |-> o, queue |-> q, sent |-> <<>>]

\* variant of CaughtInHandler: no except clause for the exception of the drain
CaughtNothing(exc) == FALSE

\* lines 117-120: the exception of _send_data that the handler logs and does not raise
CaughtInHandler(exc) == exc = "MessageWasNotDeliveredException"

\* lines 114-125: self._send_data() and its except clauses, one round at a time
SendData ==
    /\ pc = "send"
    /\ \E o \in PublishOutcomes :
          LET round == SendDataRound(publishing_queue, o)
          IN  /\ publishing_queue' = round.queue
              /\ published' = published \o round.sent
              /\ stalled' = IF round.result = "MessageWasNotDeliveredException"
                            THEN [entry |-> Head(publishing_queue),
                                  len |-> Len(publishing_queue)]
                            ELSE NoStall
              /\ CASE round.result = "again" ->
                         /\ steps' = Append(steps, "publish")
                         /\ UNCHANGED <<pc, body, data_received, processing_error,
                                        data_for_alerting, exception, exit, raised,
                                        queue_before, put_count>>
                   [] round.result = "done" ->
                         /\ HandlerReturns("returned")
                         /\ UNCHANGED raised
                   [] round.result # "done" /\ CaughtInHandler(round.result) ->
                         /\ HandlerReturns("returned_not_delivered")
                         /\ UNCHANGED raised
                   [] OTHER -> HandlerRaises(round.result, "raised_at_send")
    /\ UNCHANGED <<connected, delivery_tag, unacked, msg_id, acks, signal_at, shutdown>>

\* variant of on_terminate: sys.exit() before the disconnect
on_terminate_exit_first ==
    /\ pc # "terminated"
    /\ signal_at' = pc
    /\ pc' = "terminated"
    /\ shutdown' = <<"exit">>
    /\ LocalsDropped
    /\ UNCHANGED <<connected, publishing_queue, delivery_tag, unacked, msg_id, acks,
                   exit, raised, published, stalled>>

\* variant of on_terminate: the signal is looked at only between two messages
on_terminate_between_messages ==
    /\ pc \in {"initializing", "consume", "raised"}
    /\ signal_at' = pc
    /\ pc' = "terminated"
    /\ connected' = FALSE
    /\ shutdown' = <<"disconnect", "exit">>
    /\ LocalsDropped
    /\ UNCHANGED <<publishing_queue, delivery_tag, unacked, msg_id, acks, exit,
                   raised, published, stalled>>

\* lines 167-174: on_terminate, run when the signal arrives, wherever the
\* process is: disconnect, then sys.exit(), which unwinds the stack
on_terminate ==
    /\ pc # "terminated"
    /\ signal_at' = pc
    /\ pc' = "terminated"
    /\ connected' = FALSE
    /\ shutdown' = <<"disconnect", "exit">>
    /\ LocalsDropped
    /\ UNCHANGED <<publishing_queue, delivery_tag, unacked, msg_id, acks, exit,
                   raised, published, stalled>>

Next ==
    \/ InitializeAlerter
    \/ ConsumeFails
    \/ Deliver
    \/ JsonLoads
    \/ ProcessData
    \/ BasicAck
    \/ PlaceData
    \/ SendData
    \/ on_terminate

Spec == Init /\ [][Next]_vars

\* a handler call that is not interrupted runs on to its next statement
SpecFair == Spec /\ WF_vars(JsonLoads \/ ProcessData \/ BasicAck \/ PlaceData \/ SendData)

TypeOK ==
    /\ delivery_tag \in 0..MaxDeliveries
    /\ acks \in 0..1

(* ------------------------ helpers of the claims ------------------------ *)

Min(a, b) == IF a <= b THEN a ELSE b

\* the last n elements of s
LastN(n, s) == SubSeq(s, Len(s) - n + 1, Len(s))

EntriesOf(alerts) == [i \in 1..Len(alerts) |-> Entry(alerts[i])]

Done(step) == \E i \in 1..Len(steps) : steps[i] = step

LastStep == IF steps = <<>> THEN "none" ELSE steps[Len(steps)]

\* positions of the entries of queue q that were derived from message id
FromMessage(q, id) == {i \in 1..Len(q) : q[i].data.timestamp = id}

\* the payload has the 'result' key, with meta_data and data under it
IsResult(d) == "result" \in DOMAIN d /\ {"meta_data", "data"} \subseteq DOMAIN d.result

\* a Success payload: a 'result' whose meta_data has its identifying fields
IsSuccess(d) == IsResult(d) /\ RESULT_META_KEYS \subseteq DOMAIN d.result.meta_data

\* a Failure payload: an 'error' whose meta_data has its identifying fields
IsFailure(d) ==
    /\ "error" \in DOMAIN d
    /\ "meta_data" \in DOMAIN d.error
    /\ ERROR_META_KEYS \subseteq DOMAIN d.error.meta_data

CurrentOf(d) == d.result.data.no_of_releases.current

PreviousOf(d) == d.result.data.no_of_releases.previous

ReleasesOf(d) == d.result.data.releases

(* -------------------------------- C1 ----------------------------------- *)

\* C1: in every reachable state the publishing queue holds at most maxsize
\* entries, whatever messages, publish outcomes and recovered errors came before.
C1_QueueWithinCapacity == Len(publishing_queue) <= maxsize

\* a full queue, right after an enqueue that had to evict
C1_Witness ==
    /\ LastStep = "put"
    /\ Len(queue_before) + Len(data_for_alerting) > maxsize
    /\ Len(publishing_queue) = maxsize

(* -------------------------------- C2 ----------------------------------- *)

\* C2: placing the alerts E on a queue holding B leaves the last
\* min(maxsize, |B| + |E|) entries of B followed by E, in their order.
C2_DropOldest ==
    LastStep = "put" =>
        publishing_queue =
            LastN(Min(maxsize, Len(queue_before) + Len(data_for_alerting)),
                  queue_before \o EntriesOf(data_for_alerting))

\* maxsize + 1 alerts placed on an empty queue: the first is absent, the rest remain
C2_Witness ==
    /\ LastStep = "put"
    /\ queue_before = <<>>
    /\ Len(data_for_alerting) = maxsize + 1
    /\ publishing_queue = EntriesOf(Tail(data_for_alerting))

(* -------------------------------- C3 ----------------------------------- *)

\* C3: a Success payload with previous not null, current > previous >= 0 and items
\* at the indices 0..delta-1 is classified into exactly delta alerts, the k-th
\* built from the item at index k.
C3_DeltaAlerts ==
    (/\ Done("classify")
     /\ IsSuccess(data_received)
     /\ ~IsNone(PreviousOf(data_received))
     /\ ~IsNone(CurrentOf(data_received))
     /\ PreviousOf(data_received).val >= 0
     /\ CurrentOf(data_received).val > PreviousOf(data_received).val
     /\ \A k \in 0..(CurrentOf(data_received).val - PreviousOf(data_received).val - 1) :
            ToString(k) \in DOMAIN ReleasesOf(data_received))
    => LET delta == CurrentOf(data_received).val - PreviousOf(data_received).val
       IN  /\ ~processing_error
           /\ Len(data_for_alerting) = delta
           /\ \A k \in 0..(delta - 1) :
                 /\ data_for_alerting[k + 1].alert_code = "NewGitHubReleaseAlert"
                 /\ data_for_alerting[k + 1].release_name =
                        ReleasesOf(data_received)[ToString(k)].release_name
                 /\ data_for_alerting[k + 1].tag_name =
                        ReleasesOf(data_received)[ToString(k)].tag_name

\* the example of the specification: current 3, previous 1, items "0" and "1"
C3_Witness ==
    /\ Done("classify")
    /\ IsSuccess(data_received)
    /\ CurrentOf(data_received) = JInt(3)
    /\ PreviousOf(data_received) = JInt(1)
    /\ DOMAIN ReleasesOf(data_received) = {"0", "1"}
    /\ Len(data_for_alerting) = 2

(* -------------------------------- C4 ----------------------------------- *)

\* C4: a 'result' payload whose previous is null, or whose current is at most
\* previous, yields no alert and no classification error; the enqueue runs and
\* leaves the queue as it was.
C4_NoBaselineNoAlerts ==
    (/\ Done("classify")
     /\ IsResult(data_received)
     /\ \/ IsNone(PreviousOf(data_received))
        \/ /\ ~IsNone(CurrentOf(data_received))
           /\ CurrentOf(data_received).val <= PreviousOf(data_received).val)
    => /\ ~processing_error
       /\ data_for_alerting = <<>>
       /\ exception = "none"
       /\ ~Done("skip_put")
       /\ LastStep = "put" => publishing_queue = queue_before

\* a first observation of three releases, all listed, after the enqueue
C4_Witness ==
    /\ LastStep = "put"
    /\ IsSuccess(data_received)
    /\ IsNone(PreviousOf(data_received))
    /\ CurrentOf(data_received) = JInt(3)
    /\ DOMAIN ReleasesOf(data_received) = IndexKeys
    /\ publishing_queue = queue_before

(* -------------------------------- C5 ----------------------------------- *)

\* C5: a Failure payload is classified into exactly one alert, built from its
\* metadata, and the enqueue places exactly one entry for the message.
C5_FailureOneAlert ==
    (Done("classify") /\ IsFailure(data_received))
    => /\ ~processing_error
       /\ Len(data_for_alerting) = 1
       /\ data_for_alerting[1].alert_code = "CannotAccessGitHubPageAlert"
       /\ data_for_alerting[1].timestamp = data_received.error.meta_data.time
       /\ data_for_alerting[1].origin_id = data_received.error.meta_data.repo_id
       /\ LastStep = "put" =>
             /\ Cardinality(FromMessage(publishing_queue, msg_id)) = 1
             /\ publishing_queue[Len(publishing_queue)] = Entry(data_for_alerting[1])

\* a Failure payload placed on a queue that held an earlier entry
C5_Witness ==
    /\ LastStep = "put"
    /\ IsFailure(data_received)
    /\ queue_before # <<>>
    /\ Cardinality(FromMessage(publishing_queue, msg_id)) = 1
(* -------------------------------- C6 ----------------------------------- *)

\* the payload has neither the 'result' nor the 'error' key
IsUnrecognized(d) == "result" \notin DOMAIN d /\ "error" \notin DOMAIN d

\* the handler call is running
InFlight == pc \in {"decode", "classify", "ack", "place", "send"}

\* C6: a payload with neither key fails classification with
\* ReceivedUnexpectedDataException, which the handler catches: the call goes on,
\* acknowledges the message and places nothing on the queue.
C6_UnrecognizedRecovered ==
    (Done("classify") /\ IsUnrecognized(data_received))
    => /\ processing_error
       /\ exception = "ReceivedUnexpectedDataException"
       /\ data_for_alerting = <<>>
       /\ InFlight /\ exit = "in_flight"
       /\ pc = "send" => acks = 1
       /\ ~Done("put")
       /\ LastStep = "skip_put" => publishing_queue = queue_before
       /\ FromMessage(publishing_queue, msg_id) = {}

\* an unknown payload, acknowledged, the enqueue skipped over a queue with a backlog
C6_Witness ==
    /\ IsUnrecognized(data_received)
    /\ LastStep = "skip_put"
    /\ acks = 1
    /\ queue_before # <<>>
    /\ publishing_queue = queue_before

(* -------------------------------- C7 ----------------------------------- *)

\* C7: when any step of classifying a message fails, no entry derived from that
\* message is placed on the queue or published, also when alerts for the first
\* indices were already built.
C7_AllOrNothing ==
    processing_error
    => /\ FromMessage(publishing_queue, msg_id) = {}
       /\ FromMessage(published, msg_id) = {}
       /\ ~Done("put")
       /\ LastStep = "skip_put" => publishing_queue = queue_before

\* delta 3 with the item at index 2 missing: two alerts built, none placed
C7_Witness ==
    /\ processing_error
    /\ exception = "KeyError"
    /\ Len(data_for_alerting) = 2
    /\ LastStep = "skip_put"
    /\ publishing_queue = queue_before

(* -------------------------------- C8 ----------------------------------- *)

\* C8: a message is acknowledged after its classification attempt and before
\* any entry derived from it is published.
C8_AckAfterClassifyBeforePublish ==
    /\ (InFlight /\ acks >= 1) => Done("classify")
    /\ \A i \in 1..Len(steps) :
          steps[i] = "ack" => \E j \in 1..(i - 1) : steps[j] = "classify"
    /\ \A i \in 1..Len(steps) :
          steps[i] = "publish" => \E j \in 1..(i - 1) : steps[j] = "ack"
    /\ FromMessage(published, msg_id) # {} => acks = 1

\* an entry of the message in flight has been published, after the acknowledgement
C8_Witness ==
    /\ InFlight
    /\ FromMessage(published, msg_id) # {}
    /\ acks = 1
    /\ Done("classify")

(* -------------------------------- C9 ----------------------------------- *)

\* C9 as stated: in a handler call that classified without error, the
\* acknowledgement comes only after the entries were put on the queue.
C9_PutBeforeAck == (Done("ack") /\ ~processing_error) => Done("put")

\* C9, amended: the steps of one handler call are, in this order, the
\* classification, the acknowledgement, the enqueue (skipped on a
\* classification error) and the drain, publish by publish.
C9_AckThenPutThenDrain ==
    /\ Len(steps) >= 1 => steps[1] = "decode"
    /\ Len(steps) >= 2 => steps[2] = "classify"
    /\ Len(steps) >= 3 => steps[3] = "ack"
    /\ Len(steps) >= 4 => steps[4] = (IF processing_error THEN "skip_put" ELSE "put")
    /\ \A i \in 5..Len(steps) : steps[i] = "publish"
    /\ pc = "send" <=> Len(steps) >= 4

\* a call that acknowledged, then enqueued its alerts, then published one entry
C9_Witness ==
    /\ steps = <<"decode", "classify", "ack", "put", "publish">>
    /\ data_for_alerting # <<>>
    /\ acks = 1

(* -------------------------------- C10 ---------------------------------- *)

\* C10: every handler call that ended, other than by a failure of basic_ack
\* itself, acknowledged its message exactly once, whatever the body was.
C10_AckedWhateverBody ==
    exit \in {"returned", "returned_not_delivered", "raised_at_decode", "raised_at_send"}
    => acks = 1

(* -------------------------------- C11 ---------------------------------- *)

\* C11: when the publish of the head entry reports not delivered, the drain
\* stops and the queue keeps its length and its head; the same entry heads the
\* queue when the next drain starts, unless the enqueue in between evicted it.
C11_NotDeliveredKeepsHead ==
    (stalled # NoStall /\ pc # "terminated")
    => /\ exit = "returned_not_delivered" => ~InFlight
       /\ pc # "send" =>
             /\ Len(publishing_queue) = stalled.len
             /\ Head(publishing_queue) = stalled.entry
       /\ pc = "send" =>
             \/ Head(publishing_queue) = stalled.entry
             \/ /\ LastStep = "put"
                /\ Len(queue_before) + Len(data_for_alerting) > maxsize

\* the next drain is about to start: new entries were appended behind the
\* entry that was not delivered, which still heads the queue
C11_Witness ==
    /\ pc = "send"
    /\ LastStep = "put"
    /\ data_for_alerting # <<>>
    /\ stalled # NoStall
    /\ Head(publishing_queue) = stalled.entry
    /\ Len(publishing_queue) > stalled.len

(* -------------------------------- C12 ---------------------------------- *)

\* index of the release item an entry was built from (0 for the alert of an 'error')
IndexOfEntry(e) ==
    IF e.data.alert_code = "NewGitHubReleaseAlert"
    THEN CHOOSE k \in 0..(MaxReleases - 1) :
             ReleaseItem(ToString(k)).release_name = e.data.release_name
    ELSE 0

\* e1 was enqueued before e2: an earlier message, or an earlier index of the same one
Earlier(e1, e2) ==
    \/ e1.data.timestamp < e2.data.timestamp
    \/ /\ e1.data.timestamp = e2.data.timestamp
       /\ IndexOfEntry(e1) < IndexOfEntry(e2)

\* C12: entries are published in the order they were enqueued: every published
\* entry was enqueued before every entry still queued, so an entry is never
\* published while an earlier one waits, and nothing behind a head entry that
\* was not delivered is published while it is queued.
C12_PublishedInFifoOrder ==
    /\ \A i, j \in 1..Len(published) : i < j => Earlier(published[i], published[j])
    /\ \A i, j \in 1..Len(publishing_queue) :
          i < j => Earlier(publishing_queue[i], publishing_queue[j])
    /\ \A i \in 1..Len(published) : \A j \in 1..Len(publishing_queue) :
          Earlier(published[i], publishing_queue[j])
    /\ stalled # NoStall =>
          \A i \in 1..Len(published) : published[i] # stalled.entry

\* an entry was published, then the head of two queued entries was not delivered:
\* the entry behind it stays unpublished
C12_Witness ==
    /\ stalled # NoStall
    /\ exit = "returned_not_delivered"
    /\ Len(publishing_queue) = 2
    /\ Head(publishing_queue) = stalled.entry
    /\ published # <<>>

(* -------------------------------- C13 ---------------------------------- *)

\* C13: the consumption loop is left by an exception only when that exception
\* is a connection error or another error that is neither a channel error nor
\* a not-delivered error; after a channel error the process is consuming again.
C13_LoopErrorRouting ==
    /\ pc = "raised" =>
          raised \notin {"none", "AMQPChannelError", "MessageWasNotDeliveredException"}
    /\ (raised = "AMQPChannelError" /\ pc # "terminated") => pc = "consume"
    /\ LoopAfter("MessageWasNotDeliveredException") = "consume"
    /\ LoopAfter("AMQPConnectionError") = "raised"

\* a channel error left the handler at basic_ack and the loop consumes again
C13_Witness ==
    /\ pc = "consume"
    /\ raised = "AMQPChannelError"
    /\ exit = "raised_at_ack"
    /\ unacked # {}

(* -------------------------------- C14 ---------------------------------- *)

\* C14 as stated: a shutdown signal that comes while the loop is consuming is
\* answered by a final drain of the queue before the disconnect.
C14_FinalDrainBeforeDisconnect ==
    (pc = "terminated" /\ signal_at = "consume")
    => \E i, j \in 1..Len(shutdown) :
          i < j /\ shutdown[i] = "drain" /\ shutdown[j] = "disconnect"

\* C14, amended: on the shutdown signal the process disconnects and then exits,
\* and does nothing else: no drain of the queue is attempted.
C14_DisconnectThenExit ==
    /\ pc = "terminated" => (shutdown = <<"disconnect", "exit">> /\ ~connected)
    /\ pc # "terminated" => shutdown = <<>>

\* the signal came while consuming, with an entry waiting to be retried:
\* the process has exited and the entry is still queued
C14_Witness ==
    /\ pc = "terminated"
    /\ signal_at = "consume"
    /\ stalled # NoStall
    /\ publishing_queue # <<>>
    /\ Head(publishing_queue) = stalled.entry

(* -------------------------------- C15 ---------------------------------- *)

\* C15 as stated: the shutdown signal takes effect only between messages,
\* never while a handler call is in flight.
C15_SignalOnlyBetweenMessages ==
    pc = "terminated" => signal_at \notin {"decode", "classify", "ack", "place", "send"}

\* C15, amended: the shutdown signal takes effect wherever the process is, also
\* in the middle of a handler call, which then never completes.
C15_SignalPreempts ==
    /\ pc # "terminated" => ENABLED on_terminate
    /\ (pc = "terminated" /\ signal_at \in {"decode", "classify", "ack", "place", "send"})
          => (exit = "in_flight" /\ ~connected)

\* the signal came between basic_ack and the enqueue: the message is
\* acknowledged, the process has exited and its alerts were never queued
C15_Witness ==
    /\ pc = "terminated"
    /\ signal_at = "place"
    /\ acks = 1
    /\ exit = "in_flight"
    /\ FromMessage(publishing_queue, msg_id) = {}

(* -------------------------------- C16 ---------------------------------- *)

C17_NoDuplicateByRedelivery ==
    /\ (InFlight /\ acks = 0) => publishing_queue = queue_before
    /\ exit = "raised_at_ack"
          => FromMessage(published \o publishing_queue, msg_id) = {}
    /\ LET all == published \o publishing_queue
       IN  \A i, j \in 1..Len(all) : i < j => all[i] # all[j]

\* a message whose first basic_ack failed was delivered again, acknowledged,
\* and its entries have just been put on the queue
C17_Witness ==
    /\ delivery_tag = 2
    /\ msg_id = 1
    /\ acks = 1
    /\ LastStep = "put"
    /\ FromMessage(publishing_queue, msg_id) # {}

(* -------------------------------- C18 ---------------------------------- *)

\* the entries of sequence s, as a set
Range(s) == {s[i] : i \in 1..Len(s)}

\* C18: when the enqueue step overflows the queue while its head entry is one
\* whose publish was not delivered, that entry is evicted: it is no longer
\* queued and was never published.
C18_EvictionDropsAwaiting ==
    (/\ LastStep = "put"
     /\ stalled # NoStall
     /\ Len(queue_before) + Len(data_for_alerting) > maxsize)
    => /\ Head(queue_before) = stalled.entry
       /\ stalled.entry \notin Range(publishing_queue)
       /\ stalled.entry \notin Range(published)

\* an entry whose publish was not delivered has been evicted by the entries
\* of the next message: it left the queue without being published
C18_Witness ==
    /\ LastStep = "put"
    /\ stalled # NoStall
    /\ Len(publishing_queue) = maxsize
    /\ stalled.entry \notin Range(publishing_queue)
    /\ stalled.entry \notin Range(published)

(* -------------------------------- C19 ---------------------------------- *)

\* every call that acknowledged its message goes on to the enqueue step and
\* the drain, and ends in the drain
C19_DrainInEveryAckedCall ==
    /\ (acks = 1 /\ InFlight) => pc \in {"place", "send"}
    /\ (acks = 1 /\ ~InFlight /\ pc # "terminated")
          => exit \in {"returned", "returned_not_delivered", "raised_at_send"}

\* an entry is published only by the drain of a handler call that acknowledged
PublishOnlyInHandler == published' # published => (pc = "send" /\ acks = 1)

C20_PutNeverOnFullQueue ==
    /\ pc = "place" => ENABLED PlaceData
    /\ Done("put")
          => /\ put_count.puts = Len(data_for_alerting)
             /\ put_count.on_full = 0

\* several alerts have been put on a queue that was full before the call
C20_Witness ==
    /\ Done("put")
    /\ Len(queue_before) = maxsize
    /\ Len(data_for_alerting) >= 2
    /\ put_count.puts = Len(data_for_alerting)

====
